---- MODULE Spec2Model ----
(***************************************************************************)
(* FedEx SmartRecover: the decision engine (1_AI_Model_Engine/ai_engine.py) *)
(* and the dashboard's snapshot loader (3_User_Interface/App.py).          *)
(*                                                                         *)
(* Numbers.  The engine computes in floating point; the model computes the *)
(* same expressions exactly, in fixed point:                               *)
(*   amount                      whole dollars                             *)
(*   rule_score, ml_score        1/100 of a point                          *)
(*   p2p_score (the hybrid)      1/1000 of a point   (100 points = 100000) *)
(*   p2p_confidence              1/10000             (0.95 = 9500)         *)
(*   legal_dispute_penalty, high_p2p_threshold, p2p_critical_threshold     *)
(*                               points                                    *)
(*   high_confidence_threshold   1/10000             (0.7 = 7000)          *)
(*   expected_recovery           1/100000 of a dollar                      *)
(* Binary rounding of the floats is not modelled.                          *)
(*                                                                         *)
(* An optional value (None, a missing file) is a sequence of length 0; a   *)
(* present one is a sequence of length 1.                                  *)
(***************************************************************************)
EXTENDS Integers, Sequences, FiniteSets, TLC

VARIABLES
    config_file,    \* config/thresholds.yaml in the engine's working directory
    input_file,     \* dummy_data.csv in the engine's working directory
    snapshot,       \* processed_allocations.json in the engine's working directory
    json_file,      \* the file at the dashboard's json_path
    same_dir,       \* the engine's OUTPUT_FILE and the dashboard's json_path are one file
    pc,             \* main(): the statement about to run
    config,         \* main(): the local `config`
    df,             \* main(): the local `df`
    kpis,           \* main(): the local `kpis`
    writes,         \* number of times this run wrote OUTPUT_FILE
    ui_pc,          \* load_data(): the statement about to run
    ui_result,      \* load_data(): the value returned (None is <<>>)
    ui_errors,      \* load_data(): number of st.error reports
    ui_raised,      \* load_data(): an exception left the function
    engine_runs,    \* load_data(): number of subprocess.run launches
    fn_pc,          \* direct call of one function: "ready", "returned" or "unused"
    fn_in,          \* direct call of one function: the call and its arguments
    fn_ret          \* direct call of one function: the value returned

envVars == <<config_file, input_file, same_dir>>
fileVars == <<snapshot, json_file>>
mainVars == <<pc, config, df, kpis, writes>>
uiVars == <<ui_pc, ui_result, ui_errors, ui_raised, engine_runs>>
fnVars == <<fn_pc, fn_in, fn_ret>>
vars == <<envVars, fileVars, mainVars, uiVars, fnVars>>

-----------------------------------------------------------------------------
(* Arithmetic *)

Abs(x) == IF x < 0 THEN -x ELSE x

\* Python's min(a, b) and max(a, b) on numbers
PyMin(a, b) == IF b < a THEN b ELSE a
PyMax(a, b) == IF b > a THEN b ELSE a

\* n / d rounded to an integer the way format(x, ".0f") rounds: to nearest,
\* ties to even.  d > 0.
RoundDiv(n, d) ==
    LET q == n \div d
        r == n % d
    IN  IF 2 * r < d THEN q
        ELSE IF 2 * r > d THEN q + 1
        ELSE IF q % 2 = 0 THEN q ELSE q + 1

RECURSIVE SumSeq(_)
SumSeq(s) == IF s = <<>> THEN 0 ELSE Head(s) + SumSeq(Tail(s))

-----------------------------------------------------------------------------
(* load_config *)

load_config_Defaults(file) ==
    IF file = <<>>
    THEN <<[legal_dispute_penalty |-> 25, high_confidence_threshold |-> 7000,
            high_p2p_threshold |-> 75, high_value_cutoff |-> 5000,
            low_value_cutoff |-> 500, p2p_critical_threshold |-> 10]>>
    ELSE file

\* yaml.safe_load of the file, None when the file is not found
load_config(file) == file

-----------------------------------------------------------------------------
(* validate_data *)

valid_segments == {"Retail", "SME", "Enterprise"}

AmountPositive_AllowsZero(r) == r.amount >= 0

AmountPositive(r) == r.amount > 0
DaysNonNegative(r) == r.days_overdue >= 0
SegmentValid(r) == r.customer_segment \in valid_segments

validate_data(rows) ==
    SelectSeq(SelectSeq(SelectSeq(rows, AmountPositive), DaysNonNegative), SegmentValid)

-----------------------------------------------------------------------------
(* calculate_hybrid_score *)

segment_weights(seg) ==
    CASE seg = "Enterprise" -> 0
      [] seg = "SME" -> 3
      [] seg = "Retail" -> -2
      [] OTHER -> 0

rule_score(row, cfg) ==
    LET penalty == IF cfg # <<>> THEN cfg[1].legal_dispute_penalty ELSE 25
    IN  10000 - row.days_overdue * 30
        - (IF row.dispute_history = 1 THEN 100 * penalty ELSE 0)
        + (IF row.customer_segment = "SME" THEN 500 ELSE 0)

ml_score(row) ==
    8500 - row.days_overdue * 25 + 100 * segment_weights(row.customer_segment)

Hybrid_WeightsSwapped(ml, rule) == 4 * ml + 6 * rule

\* hybrid = (0.6 * ml_score) + (0.4 * rule_score)
Hybrid(ml, rule) == 6 * ml + 4 * rule

\* confidence = 1.0 - (abs(ml_score - rule_score) / 100)
Disagreement(ml, rule) == 10000 - Abs(ml - rule)

ClampScore_NoFloor(hybrid) == PyMin(100000, hybrid)

\* max(0, min(100, hybrid))
ClampScore(hybrid) == PyMax(0, PyMin(100000, hybrid))

ClampConfidence_NoFloor(confidence) == PyMin(9500, confidence)

\* max(0.6, min(0.95, confidence))
ClampConfidence(confidence) == PyMax(6000, PyMin(9500, confidence))

\* returns <<p2p_score, p2p_confidence>>
calculate_hybrid_score(row, cfg) ==
    LET hybrid == Hybrid(ml_score(row), rule_score(row, cfg))
        confidence == Disagreement(ml_score(row), rule_score(row, cfg))
    IN  <<ClampScore(hybrid), ClampConfidence(confidence)>>

-----------------------------------------------------------------------------
(* assign_dca_with_governance *)

Agencies ==
    {"MANUAL_REVIEW_REQUIRED", "FedEx Internal Team", "DCA_Alpha_Legal",
     "DCA_Beta_Digital", "DCA_Gamma_Recovery", "DCA_General_Partners"}

assign_dca_with_governance_DisputeFirst(row, cfg, confidence) ==
    LET threshold == IF cfg # <<>> THEN cfg[1].high_confidence_threshold ELSE 7000
        high_p2p == IF cfg # <<>> THEN cfg[1].high_p2p_threshold ELSE 75
        high_val == IF cfg # <<>> THEN cfg[1].high_value_cutoff ELSE 5000
        low_val == IF cfg # <<>> THEN cfg[1].low_value_cutoff ELSE 500
        crit_p2p == IF cfg # <<>> THEN cfg[1].p2p_critical_threshold ELSE 10
    IN  IF confidence < threshold THEN "MANUAL_REVIEW_REQUIRED"
        ELSE IF row.dispute_history = 1 THEN "DCA_Alpha_Legal"
        ELSE IF row.p2p_score > 1000 * high_p2p /\ row.amount > high_val
            THEN "FedEx Internal Team"
        ELSE IF row.amount < low_val \/ row.customer_segment = "Retail"
            THEN "DCA_Beta_Digital"
        ELSE IF row.p2p_score < 1000 * crit_p2p THEN "DCA_Gamma_Recovery"
        ELSE "DCA_General_Partners"

assign_dca_with_governance(row, cfg, confidence) ==
    LET threshold == IF cfg # <<>> THEN cfg[1].high_confidence_threshold ELSE 7000
        high_p2p == IF cfg # <<>> THEN cfg[1].high_p2p_threshold ELSE 75
        high_val == IF cfg # <<>> THEN cfg[1].high_value_cutoff ELSE 5000
        low_val == IF cfg # <<>> THEN cfg[1].low_value_cutoff ELSE 500
        crit_p2p == IF cfg # <<>> THEN cfg[1].p2p_critical_threshold ELSE 10
    IN  IF confidence < threshold THEN "MANUAL_REVIEW_REQUIRED"
        ELSE IF row.p2p_score > 1000 * high_p2p /\ row.amount > high_val
            THEN "FedEx Internal Team"
        ELSE IF row.dispute_history = 1 THEN "DCA_Alpha_Legal"
        ELSE IF row.amount < low_val \/ row.customer_segment = "Retail"
            THEN "DCA_Beta_Digital"
        ELSE IF row.p2p_score < 1000 * crit_p2p THEN "DCA_Gamma_Recovery"
        ELSE "DCA_General_Partners"

-----------------------------------------------------------------------------
(* calculate_enterprise_kpis *)

\* the columns summed
AmountColumn(rows) == [i \in 1..Len(rows) |-> rows[i].amount]
ConfidenceColumn(rows) == [i \in 1..Len(rows) |-> rows[i].p2p_confidence]
ExpectedRecoveryColumn(rows) == [i \in 1..Len(rows) |-> rows[i].expected_recovery]
IsInternal(r) == r.assigned_agency = "FedEx Internal Team"
IsAutoAllocated_CountsManual(r) == r.requires_manual_review = TRUE

IsAutoAllocated(r) == r.requires_manual_review = FALSE
IsHighRisk(r) == r.p2p_score < 30000

\* internal_cases['amount'].sum() * 0.12, in cents
CommissionSavings(internal_cases) == 12 * SumSeq(AmountColumn(internal_cases))

\* df['expected_recovery'] = df['amount'] * (df['p2p_score'] / 100)
WithExpectedRecovery(r) == r @@ [expected_recovery |-> r.amount * r.p2p_score]

\* The dictionary returned, each value in the unit its format string shows:
\* whole dollars (",.0f"), tenths of a percent (".1%"), a count, hundredths
\* (".2f").
FormatKpis(total_portfolio, expected_value, commission_savings, auto_count, n, high_risk, conf_sum) ==
    [Portfolio_Value |-> RoundDiv(total_portfolio, 1),
     Expected_Recovery_Value |-> RoundDiv(expected_value, 100000),
     Commission_Savings_90d |-> RoundDiv(commission_savings * 3, 100),
     Auto_Allocation_Rate |-> RoundDiv(1000 * auto_count, n),
     High_Risk_Cases |-> high_risk,
     Avg_Confidence_Score |-> RoundDiv(conf_sum, 100 * n)]

\* [raised: the exception that left the function or "", df: the caller's frame
\* after the call (the function adds a column to it), kpis: the value returned]
calculate_enterprise_kpis(rows) ==
    LET with == [i \in 1..Len(rows) |-> WithExpectedRecovery(rows[i])]
        total_portfolio == SumSeq(AmountColumn(rows))
        expected_value == SumSeq(ExpectedRecoveryColumn(with))
        commission_savings == CommissionSavings(SelectSeq(with, IsInternal))
    IN  IF Len(with) = 0
        THEN [raised |-> "ZeroDivisionError", df |-> with, kpis |-> <<>>]
        ELSE [raised |-> "", df |-> with,
              kpis |-> <<FormatKpis(total_portfolio, expected_value, commission_savings,
                                    Len(SelectSeq(with, IsAutoAllocated)), Len(with),
                                    Len(SelectSeq(with, IsHighRisk)),
                                    SumSeq(ConfidenceColumn(with)))>>]

-----------------------------------------------------------------------------
(* main: the helpers of its stages *)

ScoreRow(cfg, r) ==
    LET sc == calculate_hybrid_score(r, cfg)
    IN  r @@ [p2p_score |-> sc[1], p2p_confidence |-> sc[2]]

RouteRow(cfg, r) ==
    r @@ [assigned_agency |-> assign_dca_with_governance(r, cfg, r.p2p_confidence)]

RequiresManualReview_AtOrBelow(cfg, r) ==
    r.p2p_confidence <= cfg[1].high_confidence_threshold

\* df['p2p_confidence'] < config['allocation_rules']['high_confidence_threshold']
RequiresManualReview(cfg, r) ==
    r.p2p_confidence < cfg[1].high_confidence_threshold

FlagRow(cfg, r) == r @@ [requires_manual_review |-> RequiresManualReview(cfg, r)]

\* hashlib.sha256(x.encode()).hexdigest()[:8] on the account ids of the model
sha256_hex8(x) ==
    CASE x = "A1" -> "16a36e86"
      [] x = "A2" -> "c8361f9b"

tokenize(x) == "FED-" \o sha256_hex8(x)

SecureRow(r) == r @@ [tokenized_id |-> tokenize(r.account_id)]

ExportRow_AllColumns(r) == r

\* secure_df[['tokenized_id', 'amount', 'p2p_score', 'p2p_confidence',
\*            'assigned_agency', 'requires_manual_review']]
ExportRow(r) ==
    [tokenized_id |-> r.tokenized_id, amount |-> r.amount, p2p_score |-> r.p2p_score,
     p2p_confidence |-> r.p2p_confidence, assigned_agency |-> r.assigned_agency,
     requires_manual_review |-> r.requires_manual_review]

\* The document written; meta.timestamp (the wall clock) is left out.
Output(k, rows) ==
    [meta |-> [version |-> "SmartRecover v2.0",
               kpis |-> k,
               governance_flags |-> [data_quality_score |-> 94,
                                     fairness_variance |-> 8,
                                     retraining_eligible |-> TRUE]],
     allocations |-> [i \in 1..Len(rows) |-> ExportRow(SecureRow(rows[i]))]]

\* A file that json.load parses to doc
JsonFile(doc) == <<[parseable |-> TRUE, doc |-> <<doc>>]>>

-----------------------------------------------------------------------------
(* main *)

\* config = load_config(); if not config: return
MainLoadConfig ==
    /\ pc = "load_config"
    /\ config' = load_config(config_file)
    /\ pc' = IF config' = <<>> THEN "exit0" ELSE "read_csv"
    /\ UNCHANGED <<envVars, fileVars, df, kpis, writes, uiVars, fnVars>>

\* df = pd.read_csv(INPUT_FILE); FileNotFoundError is caught and main returns,
\* any other exception ends the process
MainReadCsv ==
    /\ pc = "read_csv"
    /\ IF input_file.state = "missing" THEN pc' = "exit0" /\ df' = df
       ELSE IF input_file.state = "unreadable" THEN pc' = "crashed" /\ df' = df
       ELSE pc' = "validate" /\ df' = input_file.rows
    /\ UNCHANGED <<envVars, fileVars, config, kpis, writes, uiVars, fnVars>>

\* df = validate_data(df); if df.empty: return
MainValidate ==
    /\ pc = "validate"
    /\ df' = validate_data(df)
    /\ pc' = IF df' = <<>> THEN "exit0" ELSE "score"
    /\ UNCHANGED <<envVars, fileVars, config, kpis, writes, uiVars, fnVars>>

MainScore ==
    /\ pc = "score"
    /\ df' = [i \in 1..Len(df) |-> ScoreRow(config, df[i])]
    /\ pc' = "route"
    /\ UNCHANGED <<envVars, fileVars, config, kpis, writes, uiVars, fnVars>>

MainRoute ==
    /\ pc = "route"
    /\ df' = [i \in 1..Len(df) |-> RouteRow(config, df[i])]
    /\ pc' = "flags"
    /\ UNCHANGED <<envVars, fileVars, config, kpis, writes, uiVars, fnVars>>

MainFlags ==
    /\ pc = "flags"
    /\ df' = [i \in 1..Len(df) |-> FlagRow(config, df[i])]
    /\ pc' = "kpis"
    /\ UNCHANGED <<envVars, fileVars, config, kpis, writes, uiVars, fnVars>>

MainKpis ==
    /\ pc = "kpis"
    /\ LET res == calculate_enterprise_kpis(df)
       IN  /\ df' = res.df
           /\ kpis' = res.kpis
           /\ pc' = IF res.raised # "" THEN "crashed" ELSE "export"
    /\ UNCHANGED <<envVars, fileVars, config, writes, uiVars, fnVars>>

\* secure_df, output, json.dump(output, f, indent=2)
MainExport ==
    /\ pc = "export"
    /\ snapshot' = JsonFile(Output(kpis[1], df))
    /\ json_file' = IF same_dir THEN snapshot' ELSE json_file
    /\ writes' = writes + 1
    /\ pc' = "exit0"
    /\ UNCHANGED <<envVars, config, df, kpis, uiVars, fnVars>>

MainNext ==
    \/ MainLoadConfig
    \/ MainReadCsv
    \/ MainValidate
    \/ MainScore
    \/ MainRoute
    \/ MainFlags
    \/ MainKpis
    \/ MainExport

-----------------------------------------------------------------------------
(* The inputs of a run *)

MaxBatch == 2

BoundedSeq(S, n) == UNION {[1..k -> S] : k \in 0..n}

Row(id, amount, days, segment, dispute) ==
    [account_id |-> id, amount |-> amount, days_overdue |-> days,
     customer_segment |-> segment, dispute_history |-> dispute]

AccountIds == {"A1", "A2"}

\* valid and invalid rows of dummy_data.csv
RawRows ==
    {Row(id, 6000, 10, "Enterprise", 0) : id \in AccountIds}
    \cup {Row(id, 6002, 10, "Enterprise", 1) : id \in AccountIds}
    \cup {Row(id, 300, 5, "Retail", 0) : id \in AccountIds}
    \cup {Row(id, 1000, 400, "SME", 0) : id \in AccountIds}
    \cup {Row(id, 1000, 500, "Enterprise", 1) : id \in AccountIds}
    \cup {Row(id, 1000, 10, "Enterprise", 0) : id \in AccountIds}
    \cup {Row(id, 1000, 10, "SME", 1) : id \in AccountIds}
    \cup {Row(id, 0, 10, "Enterprise", 0) : id \in AccountIds}
    \cup {Row(id, -50, 400, "SME", 0) : id \in AccountIds}
    \cup {Row(id, 6000, -1, "Enterprise", 0) : id \in AccountIds}
    \cup {Row(id, 300, 10, "Unknown", 0) : id \in AccountIds}

ConfigOf(penalty, confidence, high_p2p, high_val, low_val, crit_p2p) ==
    [legal_dispute_penalty |-> penalty, high_confidence_threshold |-> confidence,
     high_p2p_threshold |-> high_p2p, high_value_cutoff |-> high_val,
     low_value_cutoff |-> low_val, p2p_critical_threshold |-> crit_p2p]

\* config/thresholds.yaml as the spec's scenarios give it, and a stricter one
DefaultConfig == ConfigOf(25, 7000, 75, 5000, 500, 10)
StrictConfig == ConfigOf(60, 8550, 80, 1000, 400, 20)
LenientConfig == ConfigOf(-50, 6000, 70, 5000, 500, 10)

ConfigFiles == {<<>>, <<DefaultConfig>>, <<StrictConfig>>, <<LenientConfig>>}

\* rows over every combination of the fields the scorer reads
DaysValues == {0, 5, 10, 300, 400, 500}
SegmentValues == {"Retail", "SME", "Enterprise", "Unknown"}
WideRows ==
    {Row("A1", amount, days, segment, dispute) :
        amount \in {300, 6000}, days \in DaysValues, segment \in SegmentValues,
        dispute \in {0, 1}}

\* batches of up to MaxBatch rows, and every one-row batch of WideRows
Batches == BoundedSeq(RawRows, MaxBatch) \cup {<<r>> : r \in WideRows}

InputFiles(batches) ==
    {[state |-> "missing", rows |-> <<>>], [state |-> "unreadable", rows |-> <<>>]}
    \cup {[state |-> "ok", rows |-> b] : b \in batches}

UiIdle ==
    /\ ui_pc = "unused"
    /\ ui_result = <<>>
    /\ ui_errors = 0
    /\ ui_raised = FALSE
    /\ engine_runs = 0

FnIdle ==
    /\ fn_pc = "unused"
    /\ fn_in = [op |-> "none"]
    /\ fn_ret = <<>>

MainFresh ==
    /\ config = <<>>
    /\ df = <<>>
    /\ kpis = <<>>
    /\ writes = 0

\* `python ai_engine.py` in a directory with no earlier snapshot
Init ==
    /\ config_file \in ConfigFiles
    /\ input_file \in InputFiles(Batches)
    /\ same_dir = TRUE
    /\ snapshot = <<>>
    /\ json_file = <<>>
    /\ pc = "load_config"
    /\ MainFresh
    /\ UiIdle
    /\ FnIdle

Next == MainNext

Spec == Init /\ [][Next]_vars

-----------------------------------------------------------------------------
(* App.py: load_data *)

\* result.returncode of the finished engine process
ReturnCode(p) == IF p = "exit0" THEN 0 ELSE 1

ReadJson_Uncaught(file) ==
    IF file = <<>> \/ ~file[1].parseable
    THEN [data |-> <<>>, error |-> FALSE, raised |-> TRUE]
    ELSE [data |-> file[1].doc, error |-> FALSE, raised |-> FALSE]

\* try: open, json.load, return data; except Exception: st.error, return None
ReadJson(file) ==
    IF file = <<>> \/ ~file[1].parseable
    THEN [data |-> <<>>, error |-> TRUE, raised |-> FALSE]
    ELSE [data |-> file[1].doc, error |-> FALSE, raised |-> FALSE]

\* json_path = get_data_path(); if the file is absent, subprocess.run the
\* engine: the launch either raises (caught: st.error, return None) or starts
\* the engine process and waits for it
UiLoadData ==
    /\ ui_pc = "start"
    /\ IF json_file # <<>>
       THEN /\ ui_pc' = "read"
            /\ UNCHANGED <<pc, ui_result, ui_errors, engine_runs>>
       ELSE \E launched \in BOOLEAN :
            IF launched
            THEN /\ engine_runs' = engine_runs + 1
                 /\ pc' = "load_config"
                 /\ ui_pc' = "engine"
                 /\ UNCHANGED <<ui_result, ui_errors>>
            ELSE /\ ui_errors' = ui_errors + 1
                 /\ ui_result' = <<>>
                 /\ ui_pc' = "returned"
                 /\ UNCHANGED <<pc, engine_runs>>
    /\ UNCHANGED <<envVars, fileVars, config, df, kpis, writes, ui_raised, fnVars>>

\* subprocess.run returned: returncode 0 goes on to read the file, any other
\* is reported and load_data returns None
UiEngineExit ==
    /\ ui_pc = "engine"
    /\ pc \in {"exit0", "crashed"}
    /\ IF ReturnCode(pc) = 0
       THEN /\ ui_pc' = "read"
            /\ UNCHANGED <<ui_result, ui_errors>>
       ELSE /\ ui_errors' = ui_errors + 1
            /\ ui_result' = <<>>
            /\ ui_pc' = "returned"
    /\ UNCHANGED <<envVars, fileVars, mainVars, ui_raised, engine_runs, fnVars>>

UiRead ==
    /\ ui_pc = "read"
    /\ LET res == ReadJson(json_file)
       IN  /\ ui_result' = res.data
           /\ ui_errors' = IF res.error THEN ui_errors + 1 ELSE ui_errors
           /\ ui_raised' = res.raised
    /\ ui_pc' = "returned"
    /\ UNCHANGED <<envVars, fileVars, mainVars, engine_runs, fnVars>>

UiNext ==
    \/ UiLoadData
    \/ UiEngineExit
    \/ UiRead

\* a snapshot left by an earlier run, and a file that json.load rejects
OldSnapshot == JsonFile(Output(<<>>, <<>>))
CorruptSnapshot == <<[parseable |-> FALSE, doc |-> <<>>]>>

UiBatches == {<<>>} \cup {<<r>> : r \in RawRows}

\* the dashboard calls load_data; the engine is not running
InitUi ==
    /\ config_file \in {<<>>, <<DefaultConfig>>}
    /\ input_file \in InputFiles(UiBatches)
    /\ same_dir \in BOOLEAN
    /\ json_file \in {<<>>, OldSnapshot, CorruptSnapshot}
    /\ snapshot = IF same_dir THEN json_file ELSE <<>>
    /\ pc = "idle"
    /\ MainFresh
    /\ ui_pc = "start"
    /\ ui_result = <<>>
    /\ ui_errors = 0
    /\ ui_raised = FALSE
    /\ engine_runs = 0
    /\ FnIdle

NextUi == MainNext \/ UiNext

SpecUi == InitUi /\ [][NextUi]_vars

-----------------------------------------------------------------------------
(* Direct calls of calculate_hybrid_score, assign_dca_with_governance and    *)
(* calculate_enterprise_kpis on arguments drawn from bounded sets            *)

OptConfigs == {<<>>, <<DefaultConfig>>, <<StrictConfig>>, <<LenientConfig>>}

ScoreCalls ==
    {[op |-> "calculate_hybrid_score", row |-> r, config |-> c] :
        r \in {w \in WideRows : w.amount = 6000}, c \in OptConfigs}

\* scored rows around every threshold of the two configurations
ScoredRows ==
    {[account_id |-> "A1", amount |-> amount, days_overdue |-> 10,
      customer_segment |-> segment, dispute_history |-> dispute, p2p_score |-> p2p] :
        amount \in {300, 500, 5000, 6000}, segment \in {"Retail", "SME", "Enterprise"},
        dispute \in {0, 1}, p2p \in {0, 9999, 10000, 75000, 75001, 88300}}

RouteCalls ==
    {[op |-> "assign_dca_with_governance", row |-> r, config |-> c, confidence |-> cf] :
        r \in ScoredRows, c \in {<<>>, <<DefaultConfig>>, <<StrictConfig>>},
        cf \in {6000, 6999, 7000, 8550, 9500}}

AllocatedRows ==
    {[amount |-> amount, p2p_score |-> p2p, p2p_confidence |-> cf,
      assigned_agency |-> agency, requires_manual_review |-> flag] :
        amount \in {300, 6002}, p2p \in {29999, 30000}, cf \in {6000, 9500},
        agency \in {"FedEx Internal Team", "MANUAL_REVIEW_REQUIRED"},
        flag \in BOOLEAN}

KpiCalls ==
    {[op |-> "calculate_enterprise_kpis", df |-> b] :
        b \in BoundedSeq(AllocatedRows, MaxBatch)}

CallScore ==
    /\ fn_pc = "ready"
    /\ fn_in.op = "calculate_hybrid_score"
    /\ fn_ret' = calculate_hybrid_score(fn_in.row, fn_in.config)
    /\ fn_pc' = "returned"
    /\ UNCHANGED <<envVars, fileVars, mainVars, uiVars, fn_in>>

CallRoute ==
    /\ fn_pc = "ready"
    /\ fn_in.op = "assign_dca_with_governance"
    /\ fn_ret' = <<assign_dca_with_governance(fn_in.row, fn_in.config, fn_in.confidence)>>
    /\ fn_pc' = "returned"
    /\ UNCHANGED <<envVars, fileVars, mainVars, uiVars, fn_in>>

CallKpis ==
    /\ fn_pc = "ready"
    /\ fn_in.op = "calculate_enterprise_kpis"
    /\ fn_ret' = <<calculate_enterprise_kpis(fn_in.df)>>
    /\ fn_pc' = "returned"
    /\ UNCHANGED <<envVars, fileVars, mainVars, uiVars, fn_in>>

InitFn ==
    /\ config_file = <<>>
    /\ input_file = [state |-> "missing", rows |-> <<>>]
    /\ same_dir = TRUE
    /\ snapshot = <<>>
    /\ json_file = <<>>
    /\ pc = "idle"
    /\ MainFresh
    /\ UiIdle
    /\ fn_pc = "ready"
    /\ fn_in \in ScoreCalls \cup RouteCalls \cup KpiCalls
    /\ fn_ret = <<>>

NextFn == CallScore \/ CallRoute \/ CallKpis

SpecFn == InitFn /\ [][NextFn]_vars

-----------------------------------------------------------------------------
(* Properties of a run of main *)

\* What the specification calls a business-valid record
BusinessValid(r) ==
    /\ r.amount > 0
    /\ r.days_overdue >= 0
    /\ r.customer_segment \in {"Retail", "SME", "Enterprise"}

\* f maps the positions of out, in order, onto exactly the business-valid
\* positions of in
SelectsValid(f, out, in) ==
    /\ \A k, l \in 1..Len(out) : k < l => f[k] < f[l]
    /\ \A i \in 1..Len(in) : BusinessValid(in[i]) <=> (\E k \in 1..Len(out) : f[k] = i)

Selections(out, in) ==
    {f \in [1..Len(out) -> 1..Len(in)] : SelectsValid(f, out, in)}

NoValidRow == \A i \in 1..Len(input_file.rows) : ~BusinessValid(input_file.rows[i])

RunHaltsEarly == config_file = <<>> \/ input_file.state # "ok" \/ NoValidRow

AllocationFields ==
    {"tokenized_id", "amount", "p2p_score", "p2p_confidence", "assigned_agency",
     "requires_manual_review"}

Written == snapshot # <<>>
Allocations == snapshot[1].doc[1].allocations
SnapshotKpis == snapshot[1].doc[1].meta.kpis

\* C4: validate_data returns exactly the records with amount > 0,
\* days_overdue >= 0 and a segment among Retail, SME, Enterprise, each unchanged
\* and in input order; when none is valid the result is empty.
C4_ValidatorKeepsExactlyValid ==
    /\ pc = "score" =>
         \E f \in Selections(df, input_file.rows) :
             \A k \in 1..Len(df) : df[k] = input_file.rows[f[k]]
    /\ (pc = "exit0" /\ config_file # <<>> /\ input_file.state = "ok" /\ writes = 0) =>
         (df = <<>> /\ NoValidRow)

C4_Witness ==
    /\ pc = "score"
    /\ Len(input_file.rows) = 2
    /\ input_file.rows[1].amount = 0
    /\ input_file.rows[1].days_overdue >= 0
    /\ input_file.rows[1].customer_segment = "Enterprise"
    /\ df = <<input_file.rows[2]>>

ManualReviewConsistent(r) ==
    /\ r.requires_manual_review <=>
           (r.p2p_confidence < config_file[1].high_confidence_threshold)
    /\ r.requires_manual_review <=> (r.assigned_agency = "MANUAL_REVIEW_REQUIRED")

\* C2: in the routed batch and in the snapshot, requires_manual_review is true
\* exactly when the confidence is below high_confidence_threshold, and exactly
\* when the agency is MANUAL_REVIEW_REQUIRED.
C2_ManualReviewConsistency ==
    /\ pc \in {"kpis", "export"} => \A i \in 1..Len(df) : ManualReviewConsistent(df[i])
    /\ Written => \A i \in 1..Len(Allocations) : ManualReviewConsistent(Allocations[i])

C2_Witness ==
    /\ Written
    /\ Len(Allocations) = 2
    /\ Allocations[1].requires_manual_review
    /\ Allocations[1].assigned_agency = "MANUAL_REVIEW_REQUIRED"
    /\ ~Allocations[2].requires_manual_review
    /\ Allocations[2].p2p_confidence = config_file[1].high_confidence_threshold

Complete(r) ==
    {"p2p_score", "p2p_confidence", "assigned_agency", "requires_manual_review"}
        \subseteq DOMAIN r

\* C5: a run whose configuration or input is missing, or whose batch is empty
\* after validation, never writes the snapshot; a run writes it at most once, and
\* only once every valid record is scored, routed and flagged and the KPIs are
\* computed.
C5_NoPartialSnapshot ==
    /\ writes <= 1
    /\ Written <=> writes = 1
    /\ RunHaltsEarly => ~Written
    /\ Written =>
         /\ pc = "exit0"
         /\ kpis # <<>>
         /\ SnapshotKpis = kpis[1]
         /\ Selections(df, input_file.rows) # {}
         /\ Len(Allocations) = Len(df)
         /\ \A i \in 1..Len(df) : Complete(df[i])

C5_Witness ==
    /\ pc = "exit0"
    /\ config_file # <<>>
    /\ input_file.state = "ok"
    /\ Len(input_file.rows) = 2
    /\ NoValidRow
    /\ ~Written

\* C8: the snapshot's allocations are the valid input records in input order,
\* each with exactly the six exported fields; neither account_id nor any other
\* input or intermediate column is exported, no exported text is an account id,
\* and records of one account carry one token.
C8_SnapshotIsAnonymized ==
    Written =>
        \E f \in Selections(Allocations, input_file.rows) :
            /\ \A k \in 1..Len(Allocations) :
                   /\ DOMAIN Allocations[k] = AllocationFields
                   /\ Allocations[k].amount = input_file.rows[f[k]].amount
                   /\ \A i \in 1..Len(input_file.rows) :
                          /\ Allocations[k].tokenized_id # input_file.rows[i].account_id
                          /\ Allocations[k].assigned_agency # input_file.rows[i].account_id
            /\ \A k, l \in 1..Len(Allocations) :
                   (input_file.rows[f[k]].account_id = input_file.rows[f[l]].account_id)
                       => Allocations[k].tokenized_id = Allocations[l].tokenized_id

C8_Witness ==
    /\ Written
    /\ Len(input_file.rows) = 2
    /\ Len(Allocations) = 2
    /\ input_file.rows[1].account_id = input_file.rows[2].account_id
    /\ input_file.rows[1].amount # input_file.rows[2].amount
    /\ Len(df) = 2
    /\ "expected_recovery" \in DOMAIN df[1]
    /\ "account_id" \in DOMAIN df[1]

KpiBoundsExceptCommission(k, n) ==
    /\ 0 <= k.Expected_Recovery_Value
    /\ k.Expected_Recovery_Value <= k.Portfolio_Value
    /\ 0 <= k.Commission_Savings_90d
    /\ 0 <= k.Auto_Allocation_Rate
    /\ k.Auto_Allocation_Rate <= 1000
    /\ 0 <= k.High_Risk_Cases
    /\ k.High_Risk_Cases <= n
    /\ 60 <= k.Avg_Confidence_Score
    /\ k.Avg_Confidence_Score <= 95

\* C10 as stated: in every snapshot 0 <= expectedRecoveryValue <= portfolioValue,
\* 0 <= commissionSavings90d <= 0.36 * portfolioValue, 0 <= autoAllocationRate <= 1,
\* 0 <= highRiskCases <= number of allocations, 0.6 <= avgConfidenceScore <= 0.95.
C10_Original ==
    Written =>
        /\ KpiBoundsExceptCommission(SnapshotKpis, Len(Allocations))
        /\ 100 * SnapshotKpis.Commission_Savings_90d <= 36 * SnapshotKpis.Portfolio_Value

\* C10 as amended: the same bounds, with the commission savings, which the
\* snapshot holds rounded to whole dollars, less than one dollar above
\* 0.36 * portfolioValue.
C10_KpiBounds ==
    Written =>
        /\ KpiBoundsExceptCommission(SnapshotKpis, Len(Allocations))
        /\ 100 * SnapshotKpis.Commission_Savings_90d
               < 36 * SnapshotKpis.Portfolio_Value + 100

C10_Witness ==
    /\ Written
    /\ 100 * SnapshotKpis.Commission_Savings_90d > 36 * SnapshotKpis.Portfolio_Value
    /\ SnapshotKpis.Expected_Recovery_Value < SnapshotKpis.Portfolio_Value

-----------------------------------------------------------------------------
(* Properties of the scorer *)

\* The two estimates as the specification states them, in 1/100 of a point
StatedRuleScore(r, penalty) ==
    10000 - 30 * r.days_overdue
    - (IF r.dispute_history = 1 THEN 100 * penalty ELSE 0)
    + (IF r.customer_segment = "SME" THEN 500 ELSE 0)

StatedLearnedScore(r) ==
    8500 - 25 * r.days_overdue
    + (IF r.customer_segment = "SME" THEN 300
       ELSE IF r.customer_segment = "Retail" THEN -200 ELSE 0)

Clamp(x, lo, hi) == IF x < lo THEN lo ELSE IF x > hi THEN hi ELSE x

\* C3: for a record with days_overdue >= 0 and one of the three segments, and
\* any penalty, the score returned is within [0, 100] and the confidence within
\* [0.6, 0.95].
C3_ScoreAndConfidenceInRange ==
    (/\ fn_pc = "returned"
     /\ fn_in.op = "calculate_hybrid_score"
     /\ fn_in.row.days_overdue >= 0
     /\ fn_in.row.customer_segment \in {"Retail", "SME", "Enterprise"}) =>
        /\ 0 <= fn_ret[1]
        /\ fn_ret[1] <= 100000
        /\ 6000 <= fn_ret[2]
        /\ fn_ret[2] <= 9500

\* a call whose unclamped score is above 100 and whose estimates disagree by
\* more than 40 points
C3_Witness ==
    /\ fn_pc = "returned"
    /\ fn_in.op = "calculate_hybrid_score"
    /\ fn_in.config # <<>>
    /\ fn_in.row.customer_segment = "SME"
    /\ LET rule == StatedRuleScore(fn_in.row, fn_in.config[1].legal_dispute_penalty)
           learned == StatedLearnedScore(fn_in.row)
       IN  /\ 6 * learned + 4 * rule > 100000
           /\ rule - learned > 4000
    /\ fn_ret = <<100000, 6000>>

ScoredAsStated(r) ==
    LET rule == StatedRuleScore(r, config_file[1].legal_dispute_penalty)
        learned == StatedLearnedScore(r)
    IN  /\ r.p2p_score = Clamp(6 * learned + 4 * rule, 0, 100000)
        /\ r.p2p_confidence = Clamp(10000 - Abs(learned - rule), 6000, 9500)

ScenarioRun ==
    /\ config_file = <<DefaultConfig>>
    /\ input_file.state = "ok"
    /\ Len(input_file.rows) = 1
    /\ input_file.rows[1].amount = 6000
    /\ input_file.rows[1].days_overdue = 10
    /\ input_file.rows[1].customer_segment = "Enterprise"
    /\ input_file.rows[1].dispute_history = 0

\* C6: every scored record of a run has p2p_score =
\* clamp(0.6 * learnedScore + 0.4 * ruleScore, 0, 100) and confidence =
\* clamp(1 - |learnedScore - ruleScore| / 100, 0.6, 0.95); the record
\* {6000, 10 days, Enterprise, no dispute} under the default thresholds is
\* exported with score 88.3, confidence 0.855, FedEx Internal Team and
\* requires_manual_review false.
C6_HybridScoreFormula ==
    /\ pc \in {"route", "flags", "kpis", "export"} =>
           \A i \in 1..Len(df) : ScoredAsStated(df[i])
    /\ (Written /\ ScenarioRun) =>
           /\ Len(Allocations) = 1
           /\ Allocations[1].p2p_score = 88300
           /\ Allocations[1].p2p_confidence = 8550
           /\ Allocations[1].assigned_agency = "FedEx Internal Team"
           /\ Allocations[1].requires_manual_review = FALSE

C6_Witness == Written /\ ScenarioRun /\ Allocations[1].p2p_score = 88300

-----------------------------------------------------------------------------
(* Properties of the router *)

\* The number of the first gate that matches, the gates as the specification
\* lists them
FirstGate(r, confidence, c) ==
    LET g1 == confidence < c.high_confidence_threshold
        g2 == r.p2p_score > 1000 * c.high_p2p_threshold /\ r.amount > c.high_value_cutoff
        g3 == r.dispute_history = 1
        g4 == r.amount < c.low_value_cutoff \/ r.customer_segment = "Retail"
        g5 == r.p2p_score < 1000 * c.p2p_critical_threshold
        matches == {n \in 1..6 : \/ n = 1 /\ g1
                                 \/ n = 2 /\ g2
                                 \/ n = 3 /\ g3
                                 \/ n = 4 /\ g4
                                 \/ n = 5 /\ g5
                                 \/ n = 6}
    IN  CHOOSE n \in matches : \A m \in matches : n <= m

GateOutcome(n) ==
    CASE n = 1 -> "MANUAL_REVIEW_REQUIRED"
      [] n = 2 -> "FedEx Internal Team"
      [] n = 3 -> "DCA_Alpha_Legal"
      [] n = 4 -> "DCA_Beta_Digital"
      [] n = 5 -> "DCA_Gamma_Recovery"
      [] n = 6 -> "DCA_General_Partners"

\* the thresholds a call without configuration falls back to are the defaults
CallThresholds == IF fn_in.config = <<>> THEN DefaultConfig ELSE fn_in.config[1]

\* C1: the agency returned is the outcome of the first matching gate in the
\* order 1..6, and is one of the six agencies.
C1_FirstMatchingGateWins ==
    (fn_pc = "returned" /\ fn_in.op = "assign_dca_with_governance") =>
        /\ fn_ret[1] = GateOutcome(FirstGate(fn_in.row, fn_in.confidence, CallThresholds))
        /\ fn_ret[1] \in {"MANUAL_REVIEW_REQUIRED", "FedEx Internal Team",
                          "DCA_Alpha_Legal", "DCA_Beta_Digital", "DCA_Gamma_Recovery",
                          "DCA_General_Partners"}

\* a record past gate 1 that satisfies both gate 2 and gate 3
C1_Witness ==
    /\ fn_pc = "returned"
    /\ fn_in.op = "assign_dca_with_governance"
    /\ fn_in.confidence >= CallThresholds.high_confidence_threshold
    /\ fn_in.row.p2p_score > 1000 * CallThresholds.high_p2p_threshold
    /\ fn_in.row.amount > CallThresholds.high_value_cutoff
    /\ fn_in.row.dispute_history = 1
    /\ fn_ret = <<"FedEx Internal Team">>

-----------------------------------------------------------------------------
(* Properties of the KPI aggregation *)

RECURSIVE SumOver(_, _)
\* the sum of val[i] over the positions i in idx
SumOver(val, idx) ==
    IF idx = {} THEN 0
    ELSE LET i == CHOOSE j \in idx : TRUE
         IN  val[i] + SumOver(val, idx \ {i})

\* C7: on a non-empty batch the six metrics are the stated sums, counts and
\* means, each in the precision the dictionary shows it in (whole dollars,
\* tenths of a percent, hundredths); on an empty batch the call raises.
C7_KpiFormulas ==
    (fn_pc = "returned" /\ fn_in.op = "calculate_enterprise_kpis") =>
        LET rows == fn_in.df
            all == 1..Len(rows)
            internal == {i \in all : rows[i].assigned_agency = "FedEx Internal Team"}
            auto == {i \in all : rows[i].requires_manual_review = FALSE}
            risky == {i \in all : rows[i].p2p_score < 30000}
        IN  IF rows = <<>>
            THEN fn_ret[1].raised # "" /\ fn_ret[1].kpis = <<>>
            ELSE /\ fn_ret[1].raised = ""
                 /\ fn_ret[1].kpis[1] =
                      [Portfolio_Value |-> SumOver([i \in all |-> rows[i].amount], all),
                       Expected_Recovery_Value |->
                           RoundDiv(SumOver([i \in all |-> rows[i].amount * rows[i].p2p_score], all),
                                    100000),
                       Commission_Savings_90d |->
                           RoundDiv(12 * SumOver([i \in all |-> rows[i].amount], internal) * 3,
                                    100),
                       Auto_Allocation_Rate |->
                           RoundDiv(1000 * Cardinality(auto), Len(rows)),
                       High_Risk_Cases |-> Cardinality(risky),
                       Avg_Confidence_Score |->
                           RoundDiv(SumOver([i \in all |-> rows[i].p2p_confidence], all),
                                    100 * Len(rows))]

C7_Witness ==
    /\ fn_pc = "returned"
    /\ fn_in.op = "calculate_enterprise_kpis"
    /\ Len(fn_in.df) = 2
    /\ fn_in.df[1].assigned_agency = "FedEx Internal Team"
    /\ fn_in.df[1].requires_manual_review = FALSE
    /\ fn_in.df[2].requires_manual_review = TRUE
    /\ fn_in.df[2].p2p_score < 30000
    /\ fn_ret[1].kpis[1].Auto_Allocation_Rate = 500
    /\ fn_ret[1].kpis[1].High_Risk_Cases >= 1
    /\ fn_ret[1].kpis[1].Commission_Savings_90d > 0

-----------------------------------------------------------------------------
(* Properties of load_data *)

Loadable == json_file # <<>> /\ json_file[1].parseable

\* C9: load_data launches the engine at most once; it never raises; when it
\* has returned, it returned the parsed content of the snapshot file if the
\* file is there and parses, and otherwise it reported an error and returned
\* None.
C9_LoadDataReportsFailure ==
    /\ engine_runs <= 1
    /\ ~ui_raised
    /\ ui_pc = "engine" => engine_runs = 1
    /\ ui_pc = "returned" =>
         /\ ui_result # <<>> => (Loadable /\ ui_result = json_file[1].doc /\ ui_errors = 0)
         /\ ~Loadable => (ui_result = <<>> /\ ui_errors >= 1)
         /\ ui_result = <<>> => ui_errors >= 1

\* the engine ran, exited with code 0 and left no snapshot at json_path
C9_Witness ==
    /\ ui_pc = "returned"
    /\ engine_runs = 1
    /\ pc = "exit0"
    /\ json_file = <<>>
    /\ ui_result = <<>>
    /\ ui_errors = 1

====
